---------------------------- MODULE Spec2Model ----------------------------
(***************************************************************************)
(* A model of sacn_rsi.py: one batch run of main() after another over the  *)
(* two files the script owns, data/rsi-history.csv and rsi-alerts.csv.     *)
(*                                                                         *)
(* Representation.                                                         *)
(*  - A symbol is the sequence of its characters, so that endswith("USDT") *)
(*    and sorted() are computed, not assumed.                              *)
(*  - Time is counted in ticks of 1/TicksPerDay day on the Asia/Shanghai   *)
(*    wall clock (the clock of line 107).  datetime.now() (line 90) reads  *)
(*    the wall clock of the host, which is hostOffset ticks behind.        *)
(*  - An RSI as talib returns it is an integer number of thousandths, or   *)
(*    NaN; a stored RSI (after round(.., 2)) is a number of hundredths.    *)
(*  - A DataFrame is the sequence of its rows.  A cell of the Timestamp    *)
(*    column carries its Python type: "str" for the text strftime made     *)
(*    (line 128), "datetime" for what pd.to_datetime parsed (line 67).     *)
(*    pandas compares neither a str with a Timestamp (sort_values, line    *)
(*    147) nor a str with a datetime (line 91): both raise TypeError,      *)
(*    which main() does not catch.                                         *)
(*                                                                         *)
(* Environment.                                                            *)
(*  - The history file is an input of every run: load_history reads what   *)
(*    data/rsi-history.csv holds, whoever wrote it.  Init ranges over no   *)
(*    file, an unreadable file and well-formed files of a few rows.        *)
(*  - The answers of the exchange, of talib and of the write in            *)
(*    save_history are chosen by the environment at each step.  The write  *)
(*    of rsi-alerts.csv (line 163), for whose failure the code has no      *)
(*    branch, is taken to succeed.                                         *)
(*  - Runs do not overlap, and the clock advances between runs only: one   *)
(*    run reads one tick at lines 107 and 90.                              *)
(*  - Spec is the sequence of runs.  SpecDiscovery applies                 *)
(*    get_usdt_futures alone to an answer kept in the variable response,   *)
(*    which Spec leaves alone.                                             *)
(***************************************************************************)
EXTENDS Integers, Sequences, FiniteSets, TLC

VARIABLES
    clock,            \* Asia/Shanghai wall clock, in ticks
    hostOffset,       \* ticks by which the host's local clock is behind it
    histFile,         \* data/rsi-history.csv
    alertsFile,       \* rsi-alerts.csv
    pc,               \* where main() stands
    response,         \* the exchangeInfo answer get_usdt_futures last read
    history_df,       \* main: history_df
    symbols,          \* main: symbols
    idx,              \* main: position of the for loop in symbols (1-based)
    lastOutcome,      \* what the last loop iteration met (fetch, talib)
    new_records,      \* main: new_records
    updated_history,  \* main: updated_history
    saved             \* what each save_history call of this run did

vars == <<clock, hostOffset, histFile, alertsFile, pc, response, history_df,
          symbols, idx, lastOutcome, new_records, updated_history, saved>>

---------------------------------------------------------------------------
(* Configuration (lines 13-20) *)

RSI_PERIOD == 14
OVERBOUGHT == 70
OVERSOLD == 30
DAYS_TO_KEEP == 7
KLINE_LIMIT == 50

(* Resolution and bounds of the model *)

TicksPerDay == 3
MaxClock == 2
MaxResponse == 3
MaxRunSymbols == 2
MaxInitRows == 2

RetentionTicks == DAYS_TO_KEEP * TicksPerDay

---------------------------------------------------------------------------
(* Strings as character sequences *)

USDT == <<"U", "S", "D", "T">>
AUSDT == <<"A">> \o USDT
BUSDT == <<"B">> \o USDT
USDTA == USDT \o <<"A">>
ABTC == <<"A", "B", "T", "C">>

Alphabet == <<"A", "B", "C", "D", "S", "T", "U">>

CharRank(c) == CHOOSE i \in 1..Len(Alphabet) : Alphabet[i] = c

\* str.endswith
endswith(s, suffix) ==
    /\ Len(s) >= Len(suffix)
    /\ SubSeq(s, Len(s) - Len(suffix) + 1, Len(s)) = suffix

\* Python's str < str: lexicographic by code point, a proper prefix first
RECURSIVE StrLess(_, _)
StrLess(a, b) ==
    IF b = <<>> THEN FALSE
    ELSE IF a = <<>> THEN TRUE
    ELSE IF Head(a) # Head(b) THEN CharRank(Head(a)) < CharRank(Head(b))
    ELSE StrLess(Tail(a), Tail(b))

\* sorted(list of str) (line 38): stable insertion of each element in turn
RECURSIVE InsertSorted(_, _)
InsertSorted(x, s) ==
    IF s = <<>> THEN <<x>>
    ELSE IF StrLess(x, Head(s)) THEN <<x>> \o s
    ELSE <<Head(s)>> \o InsertSorted(x, Tail(s))

RECURSIVE sorted(_)
sorted(s) ==
    IF s = <<>> THEN <<>>
    ELSE InsertSorted(s[Len(s)], sorted(SubSeq(s, 1, Len(s) - 1)))

\* All sequences over S of length at most n
SeqsUpTo(S, n) == UNION {[1..k -> S] : k \in 0..n}

\* The subsequence of s at the positions in keep, in order
RECURSIVE Pick(_, _, _)
Pick(s, keep, i) ==
    IF i > Len(s) THEN <<>>
    ELSE (IF i \in keep THEN <<s[i]>> ELSE <<>>) \o Pick(s, keep, i + 1)

---------------------------------------------------------------------------
(* get_usdt_futures (lines 25-41) *)

Statuses == {"TRADING", "BREAK"}
ListedSymbols == {AUSDT, BUSDT, USDTA, ABTC}
ExchangeEntries == [symbol : ListedSymbols, status : Statuses]

\* What the exchangeInfo request gives: an exception (the request or .json()
\* raised, or the answer has no "symbols"), or a list of at most n entries
RequestFailed == [ok |-> FALSE, symbols |-> <<>>]

DiscoveryAnswers(n) ==
    {RequestFailed}
    \cup {[ok |-> TRUE, symbols |-> e] : e \in SeqsUpTo(ExchangeEntries, n)}

IsListed(sym) == endswith(sym.symbol, USDT) /\ sym.status = "TRADING"

ListedOf(resp) ==
    LET keep == {i \in 1..Len(resp) : IsListed(resp[i])}
        kept == Pick(resp, keep, 1)
    IN  [i \in 1..Len(kept) |-> kept[i].symbol]

get_usdt_futures(resp) ==
    IF ~resp.ok THEN <<>> ELSE sorted(ListedOf(resp.symbols))

---------------------------------------------------------------------------
(* The sampling loop (lines 110-133) *)

\* The literals of line 123: U+8D85 U+4E70 and U+8D85 U+5356
SignalOverbought == "overbought"
SignalOversold == "oversold"

\* What talib's RSI returned as its last value, in thousandths
RsiValues == {29996, 30000, 70000, 70004}

\* What one iteration meets: the number of closes get_klines returned (none
\* when the request or its parsing failed, lines 53-54) and, when RSI() is
\* called at all, whether it raised, returned NaN (as it does on exactly
\* RSI_PERIOD closes) or returned a number.
KlineOutcomes ==
    {[closes |-> n, talib |-> "not called", rsi |-> 0] : n \in {0, RSI_PERIOD - 1}}
    \cup {[closes |-> RSI_PERIOD, talib |-> "nan", rsi |-> 0]}
    \cup {[closes |-> KLINE_LIMIT, talib |-> t, rsi |-> 0] : t \in {"raised", "nan"}}
    \cup {[closes |-> KLINE_LIMIT, talib |-> "value", rsi |-> r] : r \in RsiValues}

NoOutcome == [closes |-> 0, talib |-> "none", rsi |-> 0]

\* round(x, 2) of a number of thousandths, as a number of hundredths
\* (a tie goes to the even neighbour)
round2(m) ==
    LET q == m \div 10
        r == m % 10
    IN  IF r > 5 \/ (r = 5 /\ q % 2 = 1) THEN q + 1 ELSE q

\* line 114
TooFewCloses(o) == o.closes < RSI_PERIOD

\* Mutant of IsAbnormal: the thresholds themselves count as abnormal
IsAbnormalInclusive(o) ==
    /\ o.talib = "value"
    /\ (o.rsi >= OVERBOUGHT * 1000 \/ o.rsi <= OVERSOLD * 1000)

\* line 122: a comparison with NaN is False
IsAbnormal(o) ==
    /\ o.talib = "value"
    /\ (o.rsi > OVERBOUGHT * 1000 \/ o.rsi < OVERSOLD * 1000)

\* The iteration appends a record: lines 114-115 did not continue, RSI() did
\* not raise (lines 131-133) and line 122 held
EmitsRecord(o) == ~TooFewCloses(o) /\ o.talib # "raised" /\ IsAbnormal(o)

\* lines 123-129
NewRecord(symbol, o, now) ==
    [Symbol |-> symbol,
     RSI |-> round2(o.rsi),
     Signal |-> IF o.rsi > OVERBOUGHT * 1000 THEN SignalOverbought
                ELSE SignalOversold,
     Timestamp |-> [type |-> "str", t |-> now]]

---------------------------------------------------------------------------
(* The two files *)

NoFile == [state |-> "absent", rows |-> <<>>]
Unreadable == [state |-> "unreadable", rows |-> <<>>]
CsvFile(rows) == [state |-> "csv", rows |-> rows]

\* DataFrame.to_csv (line 79): a cell of the Timestamp column is written as
\* its text, whatever its type
to_csv(df) ==
    CsvFile([i \in 1..Len(df) |->
        [Symbol |-> df[i].Symbol, RSI |-> df[i].RSI, Signal |-> df[i].Signal,
         Timestamp |-> df[i].Timestamp.t]])

\* load_history (lines 56-72): no file, or a file pandas cannot read, gives
\* the empty frame; otherwise the Timestamp column is parsed to datetimes
load_history(file) ==
    IF file.state # "csv" THEN <<>>
    ELSE [i \in 1..Len(file.rows) |->
            [Symbol |-> file.rows[i].Symbol, RSI |-> file.rows[i].RSI,
             Signal |-> file.rows[i].Signal,
             Timestamp |-> [type |-> "datetime", t |-> file.rows[i].Timestamp]]]

---------------------------------------------------------------------------
(* Reconciliation (lines 137-151) *)

\* pd.concat (line 140)
concat(a, b) == a \o b

\* The Timestamp column holds both str and Timestamp cells
MixedTimestamps(df) ==
    \E i, j \in 1..Len(df) : df[i].Timestamp.type # df[j].Timestamp.type

\* sort_values("Timestamp", ascending=False) (line 147) raises TypeError
sort_raises(df) == MixedTimestamps(df)

IsSortedDescending(df) ==
    \A i \in 1..(Len(df) - 1) : df[i].Timestamp.t >= df[i + 1].Timestamp.t

\* The orders sort_values may leave the rows in: the default sort is not
\* stable, so rows with equal Timestamps come in any order
sort_values(df) ==
    {s \in {[i \in 1..Len(df) |-> df[p[i]]] : p \in Permutations(1..Len(df))} :
        IsSortedDescending(s)}

\* drop_duplicates(subset=["Symbol"], keep="first") (line 148)
drop_duplicates(df) ==
    Pick(df, {i \in 1..Len(df) :
                 \A j \in 1..(i - 1) : df[j].Symbol # df[i].Symbol}, 1)

\* datetime.now() (line 90): the host's local wall clock
LocalNow == clock - hostOffset

\* df["Timestamp"] >= cutoff (line 91) raises TypeError on a str cell
filter_raises(df) ==
    df # <<>> /\ \E i \in 1..Len(df) : df[i].Timestamp.type = "str"

\* filter_last_n_days (lines 84-91)
filter_last_n_days(df) ==
    IF df = <<>> THEN df
    ELSE LET cutoff == LocalNow - RetentionTicks
         IN  Pick(df, {i \in 1..Len(df) : df[i].Timestamp.t >= cutoff}, 1)

---------------------------------------------------------------------------
(* Export (lines 156-163) *)

\* Mutant of IsAlert: the thresholds themselves are exported
IsAlertInclusive(row) == row.RSI >= OVERBOUGHT * 100 \/ row.RSI <= OVERSOLD * 100

\* lines 157-160: the rows kept for the alert list
IsAlert(row) == row.RSI > OVERBOUGHT * 100 \/ row.RSI < OVERSOLD * 100

alerts_of(df) == Pick(df, {i \in 1..Len(df) : IsAlert(df[i])}, 1)

\* Order of the Signal strings by code point: U+5356 is above U+4E70
SignalKey(signal) == IF signal = SignalOversold THEN 1 ELSE 0

IsSortedBySignalDescending(df) ==
    \A i \in 1..(Len(df) - 1) : SignalKey(df[i].Signal) >= SignalKey(df[i + 1].Signal)

\* sort_values("Signal", ascending=False) (line 160)
sort_by_signal(df) ==
    {s \in {[i \in 1..Len(df) |-> df[p[i]]] : p \in Permutations(1..Len(df))} :
        IsSortedBySignalDescending(s)}

\* alerts_df[["Symbol"]]
symbol_column(df) == [i \in 1..Len(df) |-> df[i].Symbol]

---------------------------------------------------------------------------
(* The state before the first run *)

HostOffsets == {0, 1}

\* Rows a history file may hold, per symbol: recent ones with RSI 70.0 (what
\* round() makes of 70.004) and 82.5, and one as old as the retention window
\* with RSI 25.0
StoredReadings ==
    {[RSI |-> 7000, Signal |-> SignalOverbought, Timestamp |-> -1],
     [RSI |-> 8250, Signal |-> SignalOverbought, Timestamp |-> -1],
     [RSI |-> 2500, Signal |-> SignalOversold, Timestamp |-> -RetentionTicks]}

InitRows ==
    {[Symbol |-> s, RSI |-> r.RSI, Signal |-> r.Signal, Timestamp |-> r.Timestamp] :
        s \in {AUSDT, BUSDT}, r \in StoredReadings}

InitHistFiles ==
    {NoFile, Unreadable} \cup {CsvFile(rows) : rows \in SeqsUpTo(InitRows, MaxInitRows)}

Init ==
    /\ clock = 0
    /\ hostOffset \in HostOffsets
    /\ histFile \in InitHistFiles
    /\ alertsFile = NoFile
    /\ pc = "idle"
    /\ response = RequestFailed
    /\ history_df = <<>>
    /\ symbols = <<>>
    /\ idx = 1
    /\ lastOutcome = NoOutcome
    /\ new_records = <<>>
    /\ updated_history = <<>>
    /\ saved = <<>>

---------------------------------------------------------------------------
(* main (lines 93-170), one action per numbered step *)

\* Mutant of NoSymbols: the early return of lines 101-103 is never taken
NoSymbolsIgnored(syms) == FALSE

\* "not symbols" (line 101)
NoSymbols(syms) == syms = <<>>

\* Steps 1-3 (lines 96-108): load the history, discover the symbols, leave
\* at once when there are none
StartRun ==
    /\ pc = "idle"
    /\ \E answer \in DiscoveryAnswers(MaxRunSymbols) :
        /\ history_df' = load_history(histFile)
        /\ symbols' = get_usdt_futures(answer)
        /\ pc' = IF NoSymbols(symbols') THEN "aborted" ELSE "sampling"
    /\ idx' = 1
    /\ lastOutcome' = NoOutcome
    /\ new_records' = <<>>
    /\ updated_history' = <<>>
    /\ saved' = <<>>
    /\ UNCHANGED <<clock, hostOffset, histFile, alertsFile, response>>

\* Mutant of Iteration: a failing symbol also loses the records made so far
IterationLosesRecords(records, symbol, o, now) ==
    IF TooFewCloses(o) \/ o.talib = "raised" THEN <<>>
    ELSE IF EmitsRecord(o) THEN Append(records, NewRecord(symbol, o, now))
    ELSE records

\* new_records after one iteration of the loop (lines 112-133)
Iteration(records, symbol, o, now) ==
    IF EmitsRecord(o) THEN Append(records, NewRecord(symbol, o, now)) ELSE records

\* Step 4 (lines 111-133): one iteration of the loop
SampleSymbol ==
    /\ pc = "sampling"
    /\ idx <= Len(symbols)
    /\ \E o \in KlineOutcomes :
        /\ lastOutcome' = o
        /\ new_records' = Iteration(new_records, symbols[idx], o, clock)
    /\ idx' = idx + 1
    /\ UNCHANGED <<clock, hostOffset, histFile, alertsFile, pc, response,
                   history_df, symbols, updated_history, saved>>

\* Step 5 (lines 137-143), once the loop is over
Merge ==
    /\ pc = "sampling"
    /\ idx > Len(symbols)
    /\ updated_history' = IF new_records # <<>>
                          THEN concat(history_df, new_records)
                          ELSE history_df
    /\ pc' = "dedup"
    /\ lastOutcome' = NoOutcome
    /\ UNCHANGED <<clock, hostOffset, histFile, alertsFile, response, history_df,
                   symbols, idx, new_records, saved>>

\* Step 6 (lines 145-148)
Deduplicate ==
    /\ pc = "dedup"
    /\ IF updated_history = <<>>
       THEN pc' = "prune" /\ UNCHANGED updated_history
       ELSE IF sort_raises(updated_history)
       THEN pc' = "crashed" /\ UNCHANGED updated_history
       ELSE /\ pc' = "prune"
            /\ \E s \in sort_values(updated_history) :
                 updated_history' = drop_duplicates(s)
    /\ UNCHANGED <<clock, hostOffset, histFile, alertsFile, response, history_df,
                   symbols, idx, lastOutcome, new_records, saved>>

\* Step 7 (lines 150-151)
Prune ==
    /\ pc = "prune"
    /\ IF filter_raises(updated_history)
       THEN pc' = "crashed" /\ UNCHANGED updated_history
       ELSE pc' = "persist" /\ updated_history' = filter_last_n_days(updated_history)
    /\ UNCHANGED <<clock, hostOffset, histFile, alertsFile, response, history_df,
                   symbols, idx, lastOutcome, new_records, saved>>

\* What to_csv on the history file may do: write it, fail to open it, or fail
\* after it was opened and so emptied
SaveOutcomes == {"written", "not opened", "emptied"}

\* save_history (lines 74-82): a failure is caught and printed
save_history(df, outcome) ==
    CASE outcome = "written" -> to_csv(df)
      [] outcome = "not opened" -> histFile
      [] OTHER -> Unreadable

\* Step 8 (lines 153-154)
Persist ==
    /\ pc = "persist"
    /\ \E outcome \in SaveOutcomes :
        /\ histFile' = save_history(updated_history, outcome)
        /\ saved' = Append(saved, outcome)
    /\ pc' = "export"
    /\ UNCHANGED <<clock, hostOffset, alertsFile, response, history_df, symbols,
                   idx, lastOutcome, new_records, updated_history>>

\* Step 9 (lines 156-165)
Export ==
    /\ pc = "export"
    /\ \E alerts_df \in sort_by_signal(alerts_of(updated_history)) :
        alertsFile' = CsvFile(symbol_column(alerts_df))
    /\ pc' = "done"
    /\ UNCHANGED <<clock, hostOffset, histFile, response, history_df, symbols,
                   idx, lastOutcome, new_records, updated_history, saved>>

\* The process ends: main returned (line 103, or after step 10) or died of
\* the uncaught exception
Exit ==
    /\ pc \in {"done", "aborted", "crashed"}
    /\ pc' = "idle"
    /\ history_df' = <<>>
    /\ symbols' = <<>>
    /\ idx' = 1
    /\ lastOutcome' = NoOutcome
    /\ new_records' = <<>>
    /\ updated_history' = <<>>
    /\ saved' = <<>>
    /\ UNCHANGED <<clock, hostOffset, histFile, alertsFile, response>>

\* Time passes between two runs
Tick ==
    /\ pc = "idle"
    /\ clock < MaxClock
    /\ clock' = clock + 1
    /\ UNCHANGED <<hostOffset, histFile, alertsFile, pc, response, history_df,
                   symbols, idx, lastOutcome, new_records, updated_history,
                   saved>>

Next ==
    \/ StartRun
    \/ SampleSymbol
    \/ Merge
    \/ Deduplicate
    \/ Prune
    \/ Persist
    \/ Export
    \/ Exit
    \/ Tick

Spec == Init /\ [][Next]_vars

---------------------------------------------------------------------------
(* get_usdt_futures on its own: the exchange has answered (any answer),    *)
(* the function is applied to the answer                                   *)

InitDiscovery ==
    /\ clock = 0
    /\ hostOffset = 0
    /\ histFile = NoFile
    /\ alertsFile = NoFile
    /\ pc = "idle"
    /\ response \in DiscoveryAnswers(MaxResponse)
    /\ history_df = <<>>
    /\ symbols = <<>>
    /\ idx = 1
    /\ lastOutcome = NoOutcome
    /\ new_records = <<>>
    /\ updated_history = <<>>
    /\ saved = <<>>

Discover ==
    /\ pc = "idle"
    /\ symbols' = get_usdt_futures(response)
    /\ pc' = "discovered"
    /\ UNCHANGED <<clock, hostOffset, histFile, alertsFile, response, history_df,
                   idx, lastOutcome, new_records, updated_history, saved>>

SpecDiscovery == InitDiscovery /\ [][Discover]_vars

---------------------------------------------------------------------------
(* Claims *)

RowsOf(df) == {df[i] : i \in 1..Len(df)}

RunOver == pc \in {"done", "crashed"}

SaveFailed == \E i \in 1..Len(saved) : saved[i] # "written"

\* C8: the list discovery returns holds only symbols that end in "USDT" and
\* are TRADING in the answer, holds every such symbol, is sorted ascending
\* and holds no symbol twice.
C8_DiscoveryUniqueSortedListed ==
    pc = "discovered" =>
        LET entries == response.symbols
        IN  /\ \A i \in 1..Len(symbols) :
                /\ endswith(symbols[i], USDT)
                /\ \E j \in 1..Len(entries) :
                      entries[j] = [symbol |-> symbols[i], status |-> "TRADING"]
            /\ \A j \in 1..Len(entries) :
                (endswith(entries[j].symbol, USDT) /\ entries[j].status = "TRADING")
                    => \E i \in 1..Len(symbols) : symbols[i] = entries[j].symbol
            /\ \A i, k \in 1..Len(symbols) : i < k => ~StrLess(symbols[k], symbols[i])
            /\ \A i, k \in 1..Len(symbols) : i # k => symbols[i] # symbols[k]

\* C1: after a run that reached reconciliation (and whose write did not
\* fail), the history file holds at most one record per symbol, and that
\* record carries the latest timestamp among the symbol's records in the
\* prior table and the new readings.
C1_LatestRecordPerSymbol ==
    (RunOver /\ ~SaveFailed) =>
        LET all == RowsOf(history_df) \cup RowsOf(new_records)
            rows == histFile.rows
        IN  \A i \in 1..Len(rows) :
                /\ \A j \in 1..Len(rows) : rows[j].Symbol = rows[i].Symbol => j = i
                /\ \A r \in all :
                      r.Symbol = rows[i].Symbol => r.Timestamp.t <= rows[i].Timestamp

\* C3: after a run that pruned and persisted, no record of the history file
\* is older than 7 days on the clock that stamps the records.
C3_NoRecordOlderThanRetention ==
    (pc = "done" /\ ~SaveFailed) =>
        \A i \in 1..Len(histFile.rows) :
            histFile.rows[i].Timestamp >= clock - RetentionTicks

\* C6: every run whose discovery returned symbols reaches save_history and
\* writes the history file exactly once, with the finished table (one row
\* per symbol): whatever the prior history and the new readings are.
C6_PersistsExactlyOnce ==
    (RunOver /\ ~SaveFailed) =>
        /\ saved = <<"written">>
        /\ histFile = to_csv(updated_history)
        /\ \A i, j \in 1..Len(histFile.rows) :
              histFile.rows[i].Symbol = histFile.rows[j].Symbol => i = j

\* C9: a record of the history table whose symbol emits no reading in a run
\* stays, unchanged, in the history file and in the export list while it is
\* no older than 7 days, and is in neither once it is.
C9_StaleRecordKeptUntilRetention ==
    (pc = "done" /\ ~SaveFailed) =>
        \A r \in RowsOf(history_df) :
            ( /\ IsAlert(r)
              /\ \A q \in RowsOf(history_df) : q.Symbol = r.Symbol => q = r
              /\ \A q \in RowsOf(new_records) : q.Symbol # r.Symbol )
            => IF r.Timestamp.t >= clock - RetentionTicks
               THEN /\ [Symbol |-> r.Symbol, RSI |-> r.RSI, Signal |-> r.Signal,
                        Timestamp |-> r.Timestamp.t] \in RowsOf(histFile.rows)
                    /\ r.Symbol \in RowsOf(alertsFile.rows)
               ELSE /\ \A q \in RowsOf(histFile.rows) : q.Symbol # r.Symbol
                    /\ r.Symbol \notin RowsOf(alertsFile.rows)

\* C2: when discovery fails or returns no symbol, the run ends at once:
\* neither file is written and no kline is fetched.
C2_EmptyDiscoveryWritesNothing ==
    [][ ((pc = "idle" /\ pc' # "idle" /\ symbols' = <<>>) \/ pc = "aborted")
        => /\ pc' = IF pc = "idle" THEN "aborted" ELSE "idle"
           /\ histFile' = histFile
           /\ alertsFile' = alertsFile
           /\ lastOutcome' = NoOutcome
           /\ idx' = 1
           /\ saved' = <<>> ]_vars

\* A run over a history file with records was ended by an empty discovery.
C2_Witness == pc = "aborted" /\ histFile.state = "csv" /\ histFile.rows # <<>>

\* C4: an iteration that fails (no or too few closes, or RSI() raising)
\* appends nothing, leaves the records of the other symbols as they are and
\* goes on to the next symbol; the loop ends only after the last symbol.
C4_FailureSkipsOnlyThatSymbol ==
    [][ /\ (pc = "sampling" /\ idx' # idx)
           => LET o == lastOutcome'
                  failed == o.closes < RSI_PERIOD \/ o.talib = "raised"
                  n == Len(new_records)
              IN  /\ pc' = "sampling"
                  /\ idx' = idx + 1
                  /\ symbols' = symbols
                  /\ Len(new_records') \in {n, n + 1}
                  /\ SubSeq(new_records', 1, n) = new_records
                  /\ failed => new_records' = new_records
                  /\ Len(new_records') = n + 1
                        => new_records'[n + 1].Symbol = symbols[idx]
        /\ (pc = "sampling" /\ pc' # "sampling")
           => (idx = Len(symbols) + 1 /\ pc' = "dedup") ]_vars

\* The first symbol gave a record, the second failed, the record is kept.
C4_Witness ==
    /\ pc = "sampling"
    /\ idx = 3
    /\ (lastOutcome.closes < RSI_PERIOD \/ lastOutcome.talib = "raised")
    /\ Len(new_records) = 1
    /\ new_records[1].Symbol = symbols[1]

\* C5: an iteration that computed an RSI r appends one overbought record iff
\* r > 70, one oversold record iff r < 30, and nothing otherwise (r = 70,
\* r = 30, NaN); never more than one record.
C5_SignalByStrictThresholds ==
    [][ (pc = "sampling" /\ idx' # idx /\ lastOutcome'.talib \in {"value", "nan"})
        => LET o == lastOutcome'
               n == Len(new_records)
               over == o.talib = "value" /\ o.rsi > 70 * 1000
               under == o.talib = "value" /\ o.rsi < 30 * 1000
           IN  /\ Len(new_records') \in {n, n + 1}
               /\ over <=> ( /\ Len(new_records') = n + 1
                             /\ new_records'[n + 1].Signal = SignalOverbought )
               /\ under <=> ( /\ Len(new_records') = n + 1
                              /\ new_records'[n + 1].Signal = SignalOversold )
               /\ (~over /\ ~under) => new_records' = new_records ]_vars

\* An oversold record was made for the first symbol; the second symbol's RSI
\* is exactly 70 and gave none.
C5_Witness ==
    /\ pc = "sampling"
    /\ idx = 3
    /\ lastOutcome.talib = "value"
    /\ lastOutcome.rsi = 70 * 1000
    /\ Len(new_records) = 1
    /\ new_records[1].Signal = SignalOversold

\* C7: the export step writes exactly the symbols of the reconciled records
\* whose RSI is > 70 or < 30, each once, in place of whatever the file held,
\* and leaves the history file as it is.
C7_ExportIsAlertSymbols ==
    [][ (pc = "export" /\ pc' = "done")
        => LET Outside(rows) == {r \in rows : r.RSI > 70 * 100 \/ r.RSI < 30 * 100}
               reconciled == RowsOf(updated_history)
           IN  /\ alertsFile'.state = "csv"
               /\ RowsOf(alertsFile'.rows) = {r.Symbol : r \in Outside(reconciled)}
               /\ Len(alertsFile'.rows) = Cardinality(Outside(reconciled))
               /\ histFile' = histFile
               /\ saved = <<"written">>
                    => RowsOf(alertsFile'.rows)
                         = {r.Symbol : r \in Outside(RowsOf(histFile'.rows))} ]_vars

\* An export of a persisted two-record table of which one record qualifies.
C7_Witness ==
    /\ pc = "done"
    /\ saved = <<"written">>
    /\ Len(histFile.rows) = 2
    /\ Len(alertsFile.rows) = 1

===========================================================================
